---------------------------- MODULE Spec2Model ----------------------------
(***************************************************************************)
(* A model of nipoppy/tabular/base.py: BaseTabularModel (the per-row       *)
(* schema) and BaseTabular (the validated table), with the operations      *)
(* validate, find_duplicates, get_diff, add_or_update_records,             *)
(* concatenate, save_with_backup, equals, sort_values and load.            *)
(*                                                                         *)
(* A cell is a typed value: an integer, a text, or the missing value       *)
(* (None / NaN).  A frame is a set of columns and a sequence of rows, each *)
(* row carrying its position label (the pandas index) and its cells.       *)
(***************************************************************************)
EXTENDS Integers, Sequences, FiniteSets, TLC

VARIABLES df, other, file, op, pre, arg, res

vars == <<df, other, file, op, pre, arg, res>>

(***************************************************************************)
(* Bounds of the model.                                                    *)
(***************************************************************************)
MaxId == 2
MaxRows == 2

(***************************************************************************)
(* Cells.                                                                  *)
(***************************************************************************)
IntV(n) == [k |-> "int", i |-> n, s |-> ""]
StrV(t) == [k |-> "str", i |-> 0, s |-> t]
NaV == [k |-> "na", i |-> 0, s |-> ""]

\* pd.isna(value) for a scalar cell
isna(v) == v.k = "na"

Ids == 1 .. MaxId

(***************************************************************************)
(* The schema of the concrete table: id (required, integer), name and      *)
(* value (optional texts, default None); the Index Key is (id).            *)
(***************************************************************************)
Fields == <<"id", "name", "value">>
FieldSet == {Fields[j] : j \in 1 .. Len(Fields)}
index_cols == <<"id">>
IndexSet == {index_cols[j] : j \in 1 .. Len(index_cols)}
OptionalFields == {"name", "value"}
IntFields == {"id"}
FieldDefault(f) == NaV

\* str -> int as the field validation parses it: decimal digits, leading
\* zeros allowed
IntOfText(t) ==
    IF \E n \in 0 .. MaxId + 1 : t = ToString(n) \/ t = "0" \o ToString(n)
    THEN CHOOSE n \in 0 .. MaxId + 1 : t = ToString(n) \/ t = "0" \o ToString(n)
    ELSE -1

\* the failure of one field of one raw row, or "" when the field validates
FieldError(f, data) ==
    IF f \notin DOMAIN data
    THEN IF f \in OptionalFields THEN "" ELSE "missing"
    ELSE LET v == data[f] IN
         IF f \in IntFields
         THEN CASE v.k = "int" -> ""
                [] v.k = "str" -> IF IntOfText(v.s) >= 0 THEN "" ELSE "int_parsing"
                [] OTHER -> "int_type"
         ELSE CASE v.k = "str" -> ""
                [] v.k = "na" -> IF f \in OptionalFields THEN "" ELSE "string_type"
                [] OTHER -> "string_type"

\* the coerced value of a field that validates
FieldValue(f, data) ==
    IF f \notin DOMAIN data
    THEN FieldDefault(f)
    ELSE LET v == data[f] IN
         IF f \in IntFields /\ v.k = "str" THEN IntV(IntOfText(v.s)) ELSE v

(***************************************************************************)
(* BaseTabularModel.validate_before: optional fields with a missing value  *)
(* are removed (so that the default applies), other missing values become  *)
(* None.                                                                   *)
(***************************************************************************)
validate_before(data) ==
    LET keys_to_remove == {key \in DOMAIN data :
                              isna(data[key]) /\ key \in OptionalFields}
    IN [key \in DOMAIN data \ keys_to_remove |->
           IF isna(data[key]) THEN NaV ELSE data[key]]

(***************************************************************************)
(* The model built from a record and dumped: the pre-validation hook, then *)
(* the field validation, which collects the failure of every field.        *)
(***************************************************************************)
ModelErrors(record) ==
    LET data == validate_before(record)
    IN {[field |-> f, type |-> FieldError(f, data),
         input |-> IF f \in DOMAIN data THEN data[f] ELSE NaV] :
           f \in {g \in FieldSet : FieldError(g, data) # ""}}

ModelDump(record) ==
    LET data == validate_before(record)
    IN [f \in FieldSet |-> FieldValue(f, data)]

(***************************************************************************)
(* Frames.                                                                 *)
(***************************************************************************)
Row(p, r) == [pos |-> p, rec |-> r]

\* rows renumbered 0..n-1 (a fresh RangeIndex)
RangeIndexed(rows) == [j \in 1 .. Len(rows) |-> Row(j - 1, rows[j].rec)]

\* BaseTabular.__init__: a frame built with no rows and no columns gets the
\* schema's columns
Frame(cols, rows) ==
    IF Len(rows) = 0 /\ cols = {}
    THEN [cols |-> FieldSet, rows |-> <<>>]
    ELSE [cols |-> cols, rows |-> rows]

\* the frame built from a list of dicts: the columns are the dicts' keys
FrameOfRecords(recs) ==
    Frame(UNION {DOMAIN recs[j] : j \in 1 .. Len(recs)},
          [j \in 1 .. Len(recs) |-> Row(j - 1, recs[j])])

\* the projection of a row onto a sequence of columns
Project(r, cols) == [j \in 1 .. Len(cols) |-> r.rec[cols[j]]]

SeqSet(s) == {s[j] : j \in 1 .. Len(s)}

\* the rows at the positions where keep holds, labels kept (a slice)
RECURSIVE SelectRows(_, _)
SelectRows(rows, keep) ==
    IF Len(rows) = 0 THEN <<>>
    ELSE LET rest == SelectRows(Tail(rows), [j \in 1 .. Len(rows) - 1 |-> keep[j + 1]])
         IN IF keep[1] THEN <<Head(rows)>> \o rest ELSE rest

(***************************************************************************)
(* BaseTabular.find_duplicates: every row whose cols projection is shared  *)
(* with another row (duplicated(subset=cols, keep=False)).                 *)
(***************************************************************************)
find_duplicates(d, cols) ==
    LET duplicated == [j \in 1 .. Len(d.rows) |->
                          \E k \in 1 .. Len(d.rows) :
                              k # j /\ Project(d.rows[k], cols) = Project(d.rows[j], cols)]
    IN [cols |-> d.cols, rows |-> SelectRows(d.rows, duplicated)]

(***************************************************************************)
(* BaseTabular.validate.  The list comprehension builds the rows' models   *)
(* in row order and the first row that fails raises: the error carries     *)
(* that row's field errors.  Then the Index Key uniqueness check.          *)
(***************************************************************************)
\* a variant that reports the last failing row instead of the first
FirstInvalid_last(d) ==
    IF \E j \in 1 .. Len(d.rows) : ModelErrors(d.rows[j].rec) # {}
    THEN CHOOSE j \in 1 .. Len(d.rows) :
            /\ ModelErrors(d.rows[j].rec) # {}
            /\ \A k \in j + 1 .. Len(d.rows) : ModelErrors(d.rows[k].rec) = {}
    ELSE 0

FirstInvalid(d) ==
    IF \E j \in 1 .. Len(d.rows) : ModelErrors(d.rows[j].rec) # {}
    THEN CHOOSE j \in 1 .. Len(d.rows) :
            /\ ModelErrors(d.rows[j].rec) # {}
            /\ \A k \in 1 .. j - 1 : ModelErrors(d.rows[k].rec) = {}
    ELSE 0

ReportedErrors(d) == ModelErrors(d.rows[FirstInvalid(d)].rec)

\* a variant that looks for repeated keys among the rows as given, before
\* coercion
validate_rawkeys(d) ==
    IF FirstInvalid(d) # 0
    THEN [ok |-> FALSE, error |-> "validation", errors |-> ReportedErrors(d),
          df |-> Frame({}, <<>>)]
    ELSE LET df_validated ==
                 FrameOfRecords([j \in 1 .. Len(d.rows) |-> ModelDump(d.rows[j].rec)])
             df_duplicated == find_duplicates(d, index_cols)
         IN IF Len(df_duplicated.rows) > 0
            THEN [ok |-> FALSE, error |-> "duplicate", errors |-> {},
                  df |-> df_duplicated]
            ELSE [ok |-> TRUE, error |-> "", errors |-> {}, df |-> df_validated]

validate(d) ==
    IF FirstInvalid(d) # 0
    THEN [ok |-> FALSE, error |-> "validation", errors |-> ReportedErrors(d),
          df |-> Frame({}, <<>>)]
    ELSE LET df_validated ==
                 FrameOfRecords([j \in 1 .. Len(d.rows) |-> ModelDump(d.rows[j].rec)])
             df_duplicated == find_duplicates(df_validated, index_cols)
         IN IF Len(df_duplicated.rows) > 0
            THEN [ok |-> FALSE, error |-> "duplicate", errors |-> {},
                  df |-> df_duplicated]
            ELSE [ok |-> TRUE, error |-> "", errors |-> {}, df |-> df_validated]


(***************************************************************************)
(* BaseTabular.get_diff: the rows of self whose cols projection occurs in  *)
(* no row of other (a slice of self); an error when either frame lacks one *)
(* of the columns.                                                         *)
(***************************************************************************)
\* a variant that forgets to negate the membership mask
get_diff_unnegated(self, oth, cols) ==
    IF \E d \in {self, oth} : SeqSet(cols) \ d.cols # {}
    THEN [ok |-> FALSE, df |-> Frame({}, <<>>)]
    ELSE LET index_other == {Project(oth.rows[j], cols) : j \in 1 .. Len(oth.rows)}
             isin == [j \in 1 .. Len(self.rows) |->
                         Project(self.rows[j], cols) \in index_other]
         IN [ok |-> TRUE,
             df |-> [cols |-> self.cols, rows |-> SelectRows(self.rows, isin)]]

get_diff(self, oth, cols) ==
    IF \E d \in {self, oth} : SeqSet(cols) \ d.cols # {}
    THEN [ok |-> FALSE, df |-> Frame({}, <<>>)]
    ELSE LET index_other == {Project(oth.rows[j], cols) : j \in 1 .. Len(oth.rows)}
             isin == [j \in 1 .. Len(self.rows) |->
                         Project(self.rows[j], cols) \in index_other]
         IN [ok |-> TRUE,
             df |-> [cols |-> self.cols,
                     rows |-> SelectRows(self.rows,
                                         [j \in 1 .. Len(self.rows) |-> ~isin[j]])]]

(***************************************************************************)
(* BaseTabular.equals: assert_frame_equal with check_like=True.  The two   *)
(* frames must have the same columns and the same position labels, in any  *)
(* order, and the rows are compared label by label (reindex_like), cell by *)
(* cell, type included.                                                    *)
(***************************************************************************)
Labels(d) == {d.rows[j].pos : j \in 1 .. Len(d.rows)}
RowAt(d, p) == (CHOOSE j \in 1 .. Len(d.rows) : d.rows[j].pos = p)

\* a variant without check_like: the rows are compared in stored order
equals_ordered(self, oth) ==
    /\ self.cols = oth.cols
    /\ Len(self.rows) = Len(oth.rows)
    /\ \A j \in 1 .. Len(self.rows) : self.rows[j] = oth.rows[j]

equals(self, oth) ==
    /\ self.cols = oth.cols
    /\ Len(self.rows) = Len(oth.rows)
    /\ Labels(self) = Labels(oth)
    /\ \A p \in Labels(self) :
          self.rows[RowAt(self, p)].rec = oth.rows[RowAt(oth, p)].rec

(***************************************************************************)
(* Ordering rows by Index Key (sort_index on the key-indexed frame,        *)
(* sort_values by index_cols): ascending, keys compared column by column.  *)
(***************************************************************************)
KeyOfRow(r) == Project(r, index_cols)

KeyLess(a, b) ==
    \E j \in 1 .. Len(a) :
        /\ \A k \in 1 .. j - 1 : a[k] = b[k]
        /\ a[j].i < b[j].i

RECURSIVE InsertByKey(_, _)
InsertByKey(r, rows) ==
    IF Len(rows) = 0 THEN <<r>>
    ELSE IF KeyLess(KeyOfRow(r), KeyOfRow(Head(rows)))
         THEN <<r>> \o rows
         ELSE <<Head(rows)>> \o InsertByKey(r, Tail(rows))

RECURSIVE SortByKey(_)
SortByKey(rows) ==
    IF Len(rows) = 0 THEN <<>>
    ELSE InsertByKey(rows[Len(rows)], SortByKey(SubSeq(rows, 1, Len(rows) - 1)))

\* a variant that leaves the frame as it is
sort_index_skipped(rows) == rows

\* self.sort_index(inplace=True) on the frame indexed by the Index Key
sort_index(rows) == SortByKey(rows)

\* BaseTabular.sort_values: by the Index Key, positions renumbered
sort_values(d) == [cols |-> d.cols, rows |-> RangeIndexed(SortByKey(d.rows))]

(***************************************************************************)
(* BaseTabular.add_or_update_records.  The frame is indexed by the Index   *)
(* Key for the time of the loop; each record is validated (if asked) and   *)
(* then written column by column, the frame being sorted by key before     *)
(* each write; in every case the index is reset at the end.                *)
(***************************************************************************)
\* a variant of the write that appends without looking for the key
LocSet_append(rows, cols, key, col, v) ==
    Append(rows, Row(0, [c \in cols |->
                            IF c \in IndexSet
                            THEN key[CHOOSE j \in 1 .. Len(index_cols) : index_cols[j] = c]
                            ELSE IF c = col THEN v ELSE NaV]))

\* self.loc[idx, col] = value: the rows at the key are written; a key that
\* is not in the index is appended, its other cells missing
LocSet(rows, cols, key, col, v) ==
    IF \E j \in 1 .. Len(rows) : KeyOfRow(rows[j]) = key
    THEN [j \in 1 .. Len(rows) |->
             IF KeyOfRow(rows[j]) = key
             THEN Row(rows[j].pos, [rows[j].rec EXCEPT ![col] = v])
             ELSE rows[j]]
    ELSE Append(rows, Row(0, [c \in cols |->
                                 IF c \in IndexSet
                                 THEN key[CHOOSE j \in 1 .. Len(index_cols) : index_cols[j] = c]
                                 ELSE IF c = col THEN v ELSE NaV]))

\* the inner loop over the non-key columns, in the order the set yields them;
\* a record without the key or without the column raises KeyError
RECURSIVE WriteColumns(_, _, _, _)
WriteSorted(sorted, cols, record, order) ==
    IF ~(IndexSet \subseteq DOMAIN record) \/ Head(order) \notin DOMAIN record
    THEN [rows |-> sorted, raised |-> TRUE]
    ELSE WriteColumns(
             LocSet(sorted, cols,
                    [j \in 1 .. Len(index_cols) |-> record[index_cols[j]]],
                    Head(order), record[Head(order)]),
             cols, record, Tail(order))

WriteColumns(rows, cols, record, order) ==
    IF Len(order) = 0 THEN [rows |-> rows, raised |-> FALSE]
    ELSE WriteSorted(sort_index(rows), cols, record, order)

\* the outer loop over the records
RECURSIVE WriteRecords(_, _, _, _, _)
NextRecord(written, cols, records, validate_, order) ==
    IF written.raised
    THEN written
    ELSE WriteRecords(written.rows, cols, Tail(records), validate_, order)

WriteRecords(rows, cols, records, validate_, order) ==
    IF Len(records) = 0 THEN [rows |-> rows, raised |-> FALSE]
    ELSE IF validate_ /\ ModelErrors(Head(records)) # {}
         THEN [rows |-> rows, raised |-> TRUE]
         ELSE NextRecord(
                  WriteColumns(rows, cols,
                               IF validate_ THEN ModelDump(Head(records)) ELSE Head(records),
                               order),
                  cols, records, validate_, order)

\* finally: self.reset_index(inplace=True)
ResetIndex(cols, done) ==
    [df |-> [cols |-> cols, rows |-> RangeIndexed(done.rows)], raised |-> done.raised]

add_or_update_records(d, records, validate_, order) ==
    ResetIndex(d.cols, WriteRecords(d.rows, d.cols, records, validate_, order))

(***************************************************************************)
(* The file at the path.  A tab-separated file is its header and its rows  *)
(* of texts; a file can also be comma-separated, unreadable, or not there. *)
(***************************************************************************)
\* the texts read_csv takes for a missing value
NaTexts == {"", "NA"}

\* to_csv: a cell as written
CellText(v) ==
    CASE v.k = "int" -> ToString(v.i)
      [] v.k = "str" -> v.s
      [] OTHER -> ""

\* read_csv(dtype=str): a text as read
TextCell(t) == IF t \in NaTexts THEN NaV ELSE StrV(t)

\* the file the backup writer leaves at the path: the frame's columns and
\* rows, without the positions
FileOf(d) ==
    [st |-> "tsv", cols |-> d.cols,
     rows |-> [j \in 1 .. Len(d.rows) |-> [c \in d.cols |-> CellText(d.rows[j].rec[c])]]]

(***************************************************************************)
(* BaseTabular.load: read every cell as a text, refuse a comma-separated   *)
(* file, validate.                                                         *)
(***************************************************************************)
ReadCsv(f) ==
    Frame(f.cols,
          [j \in 1 .. Len(f.rows) |-> Row(j - 1, [c \in f.cols |-> TextCell(f.rows[j][c])])])

Loaded(validated) == [ok |-> validated.ok, df |-> validated.df]

load(f) ==
    IF f.st # "tsv"
    THEN [ok |-> FALSE, df |-> Frame({}, <<>>)]
    ELSE Loaded(validate(ReadCsv(f)))

\* save_df_with_backup: writes the content at the path (nothing under
\* dry_run) and returns the path
save_df_with_backup(content, f, dry_run) ==
    [ret |-> "path", file |-> IF dry_run THEN f ELSE FileOf(content)]

(***************************************************************************)
(* BaseTabular.save_with_backup: the new content, sorted if asked; if a    *)
(* file is there, it is loaded, sorted and compared, every failure of that *)
(* being suppressed; an equal file means no write and None; otherwise the  *)
(* backup writer is called and its result returned.                        *)
(***************************************************************************)
Compare(tabular_new, tabular_old, sort) ==
    IF ~tabular_old.ok
    THEN "failed"
    ELSE IF equals(tabular_new, IF sort THEN sort_values(tabular_old.df) ELSE tabular_old.df)
         THEN "equal"
         ELSE "differs"

PreCheck(tabular_new, f, sort) ==
    IF f.st = "none" THEN "absent" ELSE Compare(tabular_new, load(f), sort)

Written(saved) ==
    [ret |-> saved.ret, file |-> saved.file, delegated |-> TRUE, raised |-> FALSE]

Delegate(tabular_new, f, dry_run) == Written(save_df_with_backup(tabular_new, f, dry_run))

\* a variant that lets a failure of the pre-check reach the caller
SaveChecked_unsuppressed(tabular_new, f, checked, dry_run) ==
    CASE checked = "equal" ->
             [ret |-> "none", file |-> f, delegated |-> FALSE, raised |-> FALSE]
      [] checked = "failed" ->
             [ret |-> "none", file |-> f, delegated |-> FALSE, raised |-> TRUE]
      [] OTHER -> Delegate(tabular_new, f, dry_run)

SaveChecked(tabular_new, f, checked, dry_run) ==
    IF checked = "equal"
    THEN [ret |-> "none", file |-> f, delegated |-> FALSE, raised |-> FALSE]
    ELSE Delegate(tabular_new, f, dry_run)

SaveNew(tabular_new, f, sort, dry_run) ==
    SaveChecked(tabular_new, f, PreCheck(tabular_new, f, sort), dry_run)

\* a variant that forgets to sort the new content
NewContent_unsorted(self, sort) == self

NewContent(self, sort) == IF sort THEN sort_values(self) ELSE self

save_with_backup(self, f, sort, dry_run) ==
    SaveNew(NewContent(self, sort), f, sort, dry_run)

(***************************************************************************)
(* Idle values of the variables an operation does not use.                 *)
(***************************************************************************)
NoFrame == [cols |-> FieldSet, rows |-> <<>>]
NoFile == [st |-> "none", cols |-> {}, rows |-> <<>>]
NoArg == [records |-> <<>>, validate |-> TRUE]
NoRes == [ok |-> TRUE]

\* all sequences over S of length lo..hi
SeqsOf(S, lo, hi) == UNION {[1 .. n -> S] : n \in lo .. hi}

(***************************************************************************)
(* Validation of raw frames: the frames a caller builds from raw data      *)
(* (texts not yet coerced, missing or ill-typed cells, repeated keys).     *)
(***************************************************************************)
RawIdCells == {IntV(n) : n \in Ids} \cup {StrV("01"), StrV("x"), NaV}
RawNameCells == {NaV, StrV("A"), IntV(7)}
RawValueCells == {NaV, StrV("10")}
RawRecs == [id : RawIdCells, name : RawNameCells, value : RawValueCells]
RawFrames == {FrameOfRecords(recs) : recs \in SeqsOf(RawRecs, 0, MaxRows)}

InitValidate ==
    /\ df \in RawFrames
    /\ other = NoFrame
    /\ file = NoFile
    /\ op = "init"
    /\ pre = NoFrame
    /\ arg = NoArg
    /\ res = NoRes

\* df.validate(): the result is kept in res; a validated frame replaces df
Validated(done) ==
    /\ res' = done
    /\ df' = IF done.ok THEN done.df ELSE df

Validate ==
    /\ op' = "validate"
    /\ pre' = df
    /\ Validated(validate(df))
    /\ UNCHANGED <<other, file, arg>>

\* df.find_duplicates(): the slice of the rows with a repeated Index Key
FindDuplicates ==
    /\ "id" \in df.cols
    /\ op' = "find_duplicates"
    /\ pre' = df
    /\ res' = [ok |-> TRUE, df |-> find_duplicates(df, index_cols)]
    /\ UNCHANGED <<df, other, file, arg>>

NextValidate == Validate \/ FindDuplicates

SpecValidate == InitValidate /\ [][NextValidate]_vars

\* the validated form of every row of a frame whose rows all validate
ValidatedRecs(d) == [j \in 1 .. Len(d.rows) |-> ModelDump(d.rows[j].rec)]
AllRowsValid(d) == \A j \in 1 .. Len(d.rows) : ModelErrors(d.rows[j].rec) = {}
KeyOf(r) == [j \in 1 .. Len(index_cols) |-> r[index_cols[j]]]
KeyRepeats(recs) ==
    \E j, k \in 1 .. Len(recs) : j < k /\ KeyOf(recs[j]) = KeyOf(recs[k])

(***************************************************************************)
(* C1: when every row of the frame passes the schema, validate() fails     *)
(* with the duplicate-key error exactly when two validated rows carry the  *)
(* same Index Key, and otherwise returns the validated rows, in order, at  *)
(* positions 0..n-1.                                                       *)
(***************************************************************************)
C1_DuplicateIff ==
    (op = "validate" /\ AllRowsValid(pre)) =>
        /\ (res.error = "duplicate") <=> KeyRepeats(ValidatedRecs(pre))
        /\ ~KeyRepeats(ValidatedRecs(pre)) =>
              /\ res.ok
              /\ res.df = FrameOfRecords(ValidatedRecs(pre))

\* two rows whose raw keys differ ("01" and 1) and whose validated keys agree
C1_Witness ==
    /\ op = "validate"
    /\ AllRowsValid(pre)
    /\ res.error = "duplicate"
    /\ \E j, k \in 1 .. Len(pre.rows) :
          /\ j < k
          /\ pre.rows[j].rec["id"] # pre.rows[k].rec["id"]
          /\ ModelDump(pre.rows[j].rec)["id"] = ModelDump(pre.rows[k].rec)["id"]

\* the field failures of every row of d that fails the schema
AllRowErrors(d) == UNION {ModelErrors(d.rows[j].rec) : j \in 1 .. Len(d.rows)}
InvalidRows(d) == {j \in 1 .. Len(d.rows) : ModelErrors(d.rows[j].rec) # {}}

(***************************************************************************)
(* C7 as claimed: the error validate() raises reports the field failures   *)
(* of every failing row.                                                   *)
(***************************************************************************)
C7_AggregatesAllRows ==
    (op = "validate" /\ InvalidRows(pre) # {}) =>
        /\ res.error = "validation"
        /\ res.errors = AllRowErrors(pre)

(***************************************************************************)
(* C7 amended: the error validate() raises reports every field failure of  *)
(* the first failing row, in row order, and of no other row.               *)
(***************************************************************************)
C7_ReportsFirstFailingRow ==
    (op = "validate" /\ InvalidRows(pre) # {}) =>
        /\ res.error = "validation"
        /\ \E j \in InvalidRows(pre) :
              /\ \A k \in InvalidRows(pre) : j <= k
              /\ res.errors = ModelErrors(pre.rows[j].rec)

\* two failing rows with different failures, the first with two of them
C7_Witness ==
    /\ op = "validate"
    /\ Cardinality(InvalidRows(pre)) > 1
    /\ \E j, k \in InvalidRows(pre) :
          /\ j < k
          /\ Cardinality(ModelErrors(pre.rows[j].rec)) > 1
          /\ ~(ModelErrors(pre.rows[k].rec) \subseteq ModelErrors(pre.rows[j].rec))
    /\ res.error = "validation"


(***************************************************************************)
(* Operations on two frames.  The frames are those a caller holds: built   *)
(* from records (positions 0..n-1), the same in reverse stored order (the  *)
(* positions travel with the rows), with all the schema's columns or with  *)
(* the key column alone, and the empty frame as constructed.               *)
(***************************************************************************)
PairNameCells == {StrV("7"), IntV(7)}
PairRecs == [id : {IntV(n) : n \in Ids}, name : PairNameCells, value : {NaV}]
    \cup [id : {IntV(n) : n \in Ids}]
Reversed(rows) == [j \in 1 .. Len(rows) |-> rows[Len(rows) + 1 - j]]
PairFrames ==
    LET built == {FrameOfRecords(recs) :
                     recs \in {q \in SeqsOf(PairRecs, 0, MaxRows) :
                                  \A j, k \in 1 .. Len(q) : DOMAIN q[j] = DOMAIN q[k]}}
    IN built \cup {[cols |-> d.cols, rows |-> Reversed(d.rows)] : d \in built}

DiffCols == {index_cols, <<"name">>, <<"id", "name">>}

InitPair ==
    /\ df \in PairFrames
    /\ other \in PairFrames
    /\ file = NoFile
    /\ op = "init"
    /\ pre = NoFrame
    /\ arg = NoArg
    /\ res = NoRes

\* df.get_diff(other, cols)
GetDiff(cols) ==
    /\ op' = "get_diff"
    /\ arg' = [cols |-> cols]
    /\ res' = get_diff(df, other, cols)
    /\ UNCHANGED <<df, other, file, pre>>

\* df.equals(other)
Equals ==
    /\ op' = "equals"
    /\ arg' = NoArg
    /\ res' = [ok |-> TRUE, eq |-> equals(df, other)]
    /\ UNCHANGED <<df, other, file, pre>>

NextPair == (\E cols \in DiffCols : GetDiff(cols)) \/ Equals

SpecPair == InitPair /\ [][NextPair]_vars

\* the places of the rows of d whose cols projection occurs in no row of e
Absent(d, e, cols) ==
    {j \in 1 .. Len(d.rows) :
        \A k \in 1 .. Len(e.rows) : Project(d.rows[j], cols) # Project(e.rows[k], cols)}

(***************************************************************************)
(* C4: when both frames hold every column of cols, get_diff returns        *)
(* exactly the rows of self, in self's order, whose cols projection is the *)
(* projection of no row of other; get_diff(d, d) is empty, and get_diff    *)
(* against the empty frame as constructed returns d.                       *)
(***************************************************************************)
C4_GetDiffExact ==
    (op = "get_diff" /\ SeqSet(arg.cols) \subseteq (df.cols \cap other.cols)) =>
        LET Q == Absent(df, other, arg.cols) IN
        /\ res.ok
        /\ res.df.cols = df.cols
        /\ Len(res.df.rows) = Cardinality(Q)
        /\ \A j \in Q : res.df.rows[Cardinality({k \in Q : k <= j})] = df.rows[j]
        /\ (other = df) => res.df.rows = <<>>
        /\ (other = Frame({}, <<>>)) => res.df = df

\* a proper, non-empty part of self is returned, its second row among it
C4_Witness ==
    /\ op = "get_diff"
    /\ res.ok
    /\ Len(df.rows) = 2
    /\ Len(other.rows) > 0
    /\ res.df.rows = <<df.rows[2]>>

\* the same records, whatever the positions and the stored order
SameRecords(d, e) ==
    /\ Len(d.rows) = Len(e.rows)
    /\ \A r \in {d.rows[j].rec : j \in 1 .. Len(d.rows)}
             \cup {e.rows[j].rec : j \in 1 .. Len(e.rows)} :
          Cardinality({j \in 1 .. Len(d.rows) : d.rows[j].rec = r})
              = Cardinality({j \in 1 .. Len(e.rows) : e.rows[j].rec = r})

(***************************************************************************)
(* C6 as claimed: equals is true exactly when the two frames have the same *)
(* columns and the same collection of rows, whatever the order of the      *)
(* rows.                                                                   *)
(***************************************************************************)
C6_RowOrderIgnored ==
    (op = "equals") => (res.eq <=> (df.cols = other.cols /\ SameRecords(df, other)))

(***************************************************************************)
(* C6 amended: equals is true exactly when the two frames have the same    *)
(* columns and the same position labels and, at every position label, rows *)
(* of identical values and types; the order in which the labelled rows are *)
(* stored is ignored.                                                      *)
(***************************************************************************)
C6_EqualByPosition ==
    (op = "equals") =>
        (res.eq <=>
            /\ df.cols = other.cols
            /\ {<<df.rows[j].pos, df.rows[j].rec>> : j \in 1 .. Len(df.rows)}
                 = {<<other.rows[j].pos, other.rows[j].rec>> : j \in 1 .. Len(other.rows)})

\* equal frames whose rows differ and are stored in opposite orders
C6_Witness ==
    /\ op = "equals"
    /\ res.eq
    /\ Len(df.rows) = 2
    /\ df.rows[1].rec # df.rows[2].rec
    /\ df.rows[1] = other.rows[2]
    /\ df.rows[2] = other.rows[1]


(***************************************************************************)
(* Upserts.  The table starts as any frame with unique integer keys: with  *)
(* all the schema's columns, without the value column, or with the key     *)
(* column alone, its rows in any order.  The records are raw: the key as   *)
(* an integer, as a text to coerce or missing, the optional fields given   *)
(* or not.                                                                 *)
(***************************************************************************)
MaxRecs == 2

UpsertColumnSets == {FieldSet, {"id", "name"}, {"id"}}
UpsertInitRecs(cols) ==
    {[c \in cols |-> IF c = "id" THEN IntV(n) ELSE IF c = "name" THEN StrV("A") ELSE StrV("10")] :
        n \in Ids}
UpsertInitFrames ==
    {FrameOfRecords(recs) :
        recs \in UNION {{q \in SeqsOf(UpsertInitRecs(cols), 1, MaxId) :
                            \A j, k \in 1 .. Len(q) : j # k => q[j] # q[k]} :
                        cols \in UpsertColumnSets}}
    \cup {[cols |-> cols, rows |-> <<>>] : cols \in UpsertColumnSets}

RecordInputs ==
    LET keys == {IntV(n) : n \in Ids} \cup {StrV("01"), NaV}
    IN [id : keys] \cup [id : keys, name : {StrV("X")}]

\* the orders in which the set of non-key columns can be iterated
ColumnOrders(cols) ==
    {q \in SeqsOf(cols \ IndexSet, Cardinality(cols \ IndexSet), Cardinality(cols \ IndexSet)) :
        \A j, k \in 1 .. Len(q) : j # k => q[j] # q[k]}

InitUpsert ==
    /\ df \in UpsertInitFrames
    /\ other = NoFrame
    /\ file = NoFile
    /\ op = "init"
    /\ pre = NoFrame
    /\ arg = NoArg
    /\ res = NoRes

\* the raw records of records, validated when asked, as the loop sees them
SeenKeys(records, validate_) ==
    {KeyOf(IF validate_ THEN ModelDump(records[j]) ELSE records[j]) :
        j \in 1 .. Len(records)}

\* df.add_or_update_records(records, validate), called once on a table;
\* without validation the caller passes records whose key is already an
\* integer
Upserted(done) ==
    /\ df' = done.df
    /\ res' = [ok |-> ~done.raised]

AddOrUpdateRecords(records, validate_, order) ==
    /\ validate_ \/ \A j \in 1 .. Len(records) : records[j]["id"].k = "int"
    /\ op' = "add_or_update_records"
    /\ pre' = df
    /\ arg' = [records |-> records, validate |-> validate_]
    /\ Upserted(add_or_update_records(df, records, validate_, order))
    /\ UNCHANGED <<other, file>>

NextUpsert ==
    /\ op = "init"
    /\ \E order \in ColumnOrders(df.cols), validate_ \in BOOLEAN,
          records \in SeqsOf(RecordInputs, 0, MaxRecs) :
           AddOrUpdateRecords(records, validate_, order)

SpecUpsert == InitUpsert /\ [][NextUpsert]_vars

\* the same call, as one of a sequence of calls on the same table: of each
\* call only its outcome is remembered (whether it returned, by how many
\* rows the table grew, whether the list gave twice a key the table lacked)
UpsertedAgain(done, records, validate_) ==
    /\ df' = done.df
    /\ res' = [ok |-> ~done.raised,
               grew |-> Len(done.df.rows) - Len(df.rows),
               repeated |-> \E j, k \in 1 .. Len(records) :
                               /\ j < k
                               /\ SeenKeys(<<records[j]>>, validate_)
                                    = SeenKeys(<<records[k]>>, validate_)
                               /\ \A r \in 1 .. Len(df.rows) :
                                     {KeyOfRow(df.rows[r])}
                                        # SeenKeys(<<records[j]>>, validate_)]

AddOrUpdateRecordsAgain(records, validate_, order) ==
    /\ validate_ \/ \A j \in 1 .. Len(records) : records[j]["id"].k = "int"
    /\ op' = "add_or_update_records"
    /\ UpsertedAgain(add_or_update_records(df, records, validate_, order), records, validate_)
    /\ UNCHANGED <<other, file, pre, arg>>

\* the records of the calls of a sequence: the key as an integer, as a text
\* to coerce or missing, the name given
SeqRecordInputs == {r \in RecordInputs : "name" \in DOMAIN r}

NextUpsertSeq ==
    \E order \in ColumnOrders(df.cols), validate_ \in BOOLEAN,
       records \in SeqsOf(SeqRecordInputs, 0, MaxRecs) :
        AddOrUpdateRecordsAgain(records, validate_, order)

SpecUpsertSeq == InitUpsert /\ [][NextUpsertSeq]_vars

Keys(d) == {KeyOfRow(d.rows[j]) : j \in 1 .. Len(d.rows)}
KeySeq(rows) == [j \in 1 .. Len(rows) |-> KeyOfRow(rows[j])]
AllRecordsValid(records) == \A j \in 1 .. Len(records) : ModelErrors(records[j]) = {}
RecordKeys(records) == {KeyOf(ModelDump(records[j])) : j \in 1 .. Len(records)}

(***************************************************************************)
(* C10: no two rows of the table share an Index Key, after any sequence of *)
(* upserts.                                                                *)
(***************************************************************************)
C10_KeysStayUnique ==
    \A j, k \in 1 .. Len(df.rows) : j # k => KeyOfRow(df.rows[j]) # KeyOfRow(df.rows[k])

\* a list that gave twice a key the table lacked has added one row
C10_Witness ==
    /\ op = "add_or_update_records"
    /\ res.ok
    /\ res.repeated
    /\ res.grew = 1
    /\ Len(df.rows) > 1

(***************************************************************************)
(* C2: an upsert of valid records (validate=True) grows the table by       *)
(* exactly the number of distinct Index Keys of the list that the table    *)
(* did not hold, whatever the table's non-key columns.                     *)
(***************************************************************************)
C2_RowCountGrowsByNewKeys ==
    (op = "add_or_update_records" /\ arg.validate /\ AllRecordsValid(arg.records)) =>
        Len(df.rows) = Len(pre.rows) + Cardinality(RecordKeys(arg.records) \ Keys(pre))

\* the same, for the tables that have at least one non-key column
C2_HoldsWithNonKeyColumn ==
    (op = "add_or_update_records" /\ arg.validate /\ AllRecordsValid(arg.records)
        /\ pre.cols \ IndexSet # {}) =>
        Len(df.rows) = Len(pre.rows) + Cardinality(RecordKeys(arg.records) \ Keys(pre))

(***************************************************************************)
(* C3: an upsert (validate=True) of one record whose key is in the table   *)
(* and which does not give the optional field value leaves value as it was *)
(* in that row, overwrites the fields it gives, and leaves the other rows  *)
(* as they were.                                                           *)
(***************************************************************************)
C3_UnsuppliedFieldKept ==
    (/\ op = "add_or_update_records"
     /\ arg.validate
     /\ Len(arg.records) = 1
     /\ AllRecordsValid(arg.records)
     /\ "value" \notin DOMAIN arg.records[1]
     /\ "value" \in pre.cols
     /\ KeyOf(ModelDump(arg.records[1])) \in Keys(pre)) =>
        LET key == KeyOf(ModelDump(arg.records[1])) IN
        \A j \in 1 .. Len(pre.rows) :
            \E k \in 1 .. Len(df.rows) :
                /\ KeyOfRow(df.rows[k]) = KeyOfRow(pre.rows[j])
                /\ IF KeyOfRow(pre.rows[j]) = key
                   THEN /\ df.rows[k].rec["value"] = pre.rows[j].rec["value"]
                        /\ \A c \in (DOMAIN arg.records[1] \cap pre.cols) \ IndexSet :
                              df.rows[k].rec[c] = arg.records[1][c]
                   ELSE df.rows[k].rec = pre.rows[j].rec

\* the rows of the table that carry one of the given keys, in order
RowsWithKeys(d, keys) ==
    SelectRows(d.rows, [j \in 1 .. Len(d.rows) |-> KeyOfRow(d.rows[j]) \in keys])

PositionsRestored ==
    /\ df.cols = pre.cols
    /\ \A j \in 1 .. Len(df.rows) : df.rows[j].pos = j - 1

(***************************************************************************)
(* C8 as claimed: after an upsert, whether it returned or raised, the key  *)
(* fields are columns again, the rows are at positions 0..n-1 and the rows *)
(* that existed before are in the same relative order as before.           *)
(***************************************************************************)
C8_OrderPreserved ==
    (op = "add_or_update_records") =>
        /\ PositionsRestored
        /\ KeySeq(RowsWithKeys(df, Keys(pre))) = KeySeq(pre.rows)

\* whether the loop reached a write: the frame is sorted before each write
ReachedWrite ==
    /\ Len(arg.records) > 0
    /\ pre.cols \ IndexSet # {}
    /\ arg.validate => ModelErrors(arg.records[1]) = {}

(***************************************************************************)
(* C8 amended: after an upsert, whether it returned or raised, the key     *)
(* fields are columns again, the rows are at positions 0..n-1 and every    *)
(* row that existed before is still there; those rows are in ascending     *)
(* Index Key order when the loop reached a write, and in their order of    *)
(* before otherwise.                                                       *)
(***************************************************************************)
C8_RestoredAndSorted ==
    (op = "add_or_update_records") =>
        LET kept == KeySeq(RowsWithKeys(df, Keys(pre))) IN
        /\ PositionsRestored
        /\ Len(kept) = Len(pre.rows)
        /\ {kept[j] : j \in 1 .. Len(kept)} = Keys(pre)
        /\ IF ReachedWrite
           THEN \A j, k \in 1 .. Len(kept) : j < k => KeyLess(kept[j], kept[k])
           ELSE kept = KeySeq(pre.rows)

\* a raising upsert that had already reordered the rows of before
C8_Witness ==
    /\ op = "add_or_update_records"
    /\ ~res.ok
    /\ Len(pre.rows) = 2
    /\ KeySeq(RowsWithKeys(df, Keys(pre))) # KeySeq(pre.rows)
    /\ PositionsRestored


(***************************************************************************)
(* Saving.  The table is any frame with unique integer keys: in validated  *)
(* form, with a name that reads back as missing, or with the key column    *)
(* alone.  Between the saves the environment may replace the file: remove  *)
(* it, make it unreadable, comma-separated, invalid, or different.         *)
(***************************************************************************)
SaveNameCells == {StrV("A"), StrV("NA"), NaV}
SaveRecs == [id : {IntV(n) : n \in Ids}, name : SaveNameCells, value : {StrV("10")}]
               \cup [id : {IntV(n) : n \in Ids}]
SaveFrames ==
    {FrameOfRecords(recs) :
        recs \in {q \in SeqsOf(SaveRecs, 0, MaxRows) :
                     \A j, k \in 1 .. Len(q) :
                         /\ DOMAIN q[j] = DOMAIN q[k]
                         /\ j # k => q[j]["id"] # q[k]["id"]}}

TsvOf(rows) == [st |-> "tsv", cols |-> FieldSet, rows |-> rows]
ExternalFiles ==
    {NoFile,
     [st |-> "csv", cols |-> {"id,name,value"}, rows |-> <<>>],
     [st |-> "locked", cols |-> {}, rows |-> <<>>],
     TsvOf(<<[id |-> "x", name |-> "A", value |-> "10"]>>),
     TsvOf(<<[id |-> "1", name |-> "A", value |-> "10"],
             [id |-> "01", name |-> "A", value |-> "10"]>>),
     TsvOf(<<[id |-> "01", name |-> "A", value |-> "10"]>>)}

NoCall == [op |-> "init", sort |-> TRUE, dry_run |-> FALSE, ret |-> "none",
           delegated |-> FALSE, before |-> NoFile]

InitSave ==
    /\ df \in SaveFrames
    /\ other = NoFrame
    /\ file = NoFile
    /\ op = "init"
    /\ pre = NoCall
    /\ arg = [sort |-> TRUE, dry_run |-> FALSE, before |-> NoFile]
    /\ res = [ret |-> "none", delegated |-> FALSE, raised |-> FALSE]

\* what is remembered of the call before the last one
LastCall == [op |-> op, sort |-> arg.sort, dry_run |-> arg.dry_run, ret |-> res.ret,
             delegated |-> res.delegated, before |-> arg.before]

\* df.save_with_backup(path, sort=sort, dry_run=dry_run)
Saved(done) ==
    /\ res' = [ret |-> done.ret, delegated |-> done.delegated, raised |-> done.raised]
    /\ file' = done.file

SaveWithBackup(sort, dry_run) ==
    /\ op' = "save_with_backup"
    /\ pre' = LastCall
    /\ arg' = [sort |-> sort, dry_run |-> dry_run, before |-> file]
    /\ Saved(save_with_backup(df, file, sort, dry_run))
    /\ UNCHANGED <<df, other>>

\* the environment replaces the file at the path
Touch(f) ==
    /\ f # file
    /\ op' = "touch"
    /\ pre' = LastCall
    /\ arg' = [sort |-> TRUE, dry_run |-> FALSE, before |-> file]
    /\ res' = [ret |-> "none", delegated |-> FALSE, raised |-> FALSE]
    /\ file' = f
    /\ UNCHANGED <<df, other>>

NextSave ==
    \/ \E sort \in BOOLEAN, dry_run \in BOOLEAN : SaveWithBackup(sort, dry_run)
    \/ \E f \in ExternalFiles : Touch(f)

SpecSave == InitSave /\ [][NextSave]_vars

\* the file there could not be loaded as a valid table: it is unreadable,
\* comma-separated, or one of its rows fails the schema, or a key repeats
Unloadable(f) ==
    \/ f.st \in {"csv", "locked"}
    \/ /\ f.st = "tsv"
       /\ \/ ~AllRowsValid(ReadCsv(f))
          \/ KeyRepeats(ValidatedRecs(ReadCsv(f)))

(***************************************************************************)
(* C9: when a file is at the path and its pre-check fails, save_with_backup*)
(* raises nothing, calls the backup writer with the new content and        *)
(* returns the writer's result.                                            *)
(***************************************************************************)
C9_PreCheckFailureSwallowed ==
    (op = "save_with_backup" /\ Unloadable(arg.before)) =>
        LET tabular_new == IF arg.sort THEN sort_values(df) ELSE df IN
        /\ ~res.raised
        /\ res.delegated
        /\ res.ret = save_df_with_backup(tabular_new, arg.before, arg.dry_run).ret
        /\ file = save_df_with_backup(tabular_new, arg.before, arg.dry_run).file

\* a save over a file with a repeated key, which validation refuses
C9_Witness ==
    /\ op = "save_with_backup"
    /\ arg.before.st = "tsv"
    /\ AllRowsValid(ReadCsv(arg.before))
    /\ KeyRepeats(ValidatedRecs(ReadCsv(arg.before)))
    /\ ~arg.dry_run
    /\ res.delegated
    /\ file # arg.before

\* two saves in a row with the defaults (sort=True, dry_run=False)
TwoSavesInARow ==
    /\ op = "save_with_backup"
    /\ pre.op = "save_with_backup"
    /\ arg.sort /\ ~arg.dry_run
    /\ pre.sort /\ ~pre.dry_run

ReloadsAsItself(d) ==
    /\ d.cols = FieldSet
    /\ \A j \in 1 .. Len(d.rows) :
          /\ ModelErrors(d.rows[j].rec) = {}
          /\ ModelDump(d.rows[j].rec) = d.rows[j].rec
          /\ \A c \in d.cols : d.rows[j].rec[c].k = "str" => d.rows[j].rec[c].s \notin NaTexts
    /\ \A j, k \in 1 .. Len(d.rows) : j # k => KeyOfRow(d.rows[j]) # KeyOfRow(d.rows[k])

\* the file holds the table d already: it reads and validates to the rows
\* of d, in some order
HoldsTable(f, d) ==
    /\ f.st = "tsv"
    /\ AllRowsValid(ReadCsv(f))
    /\ ~KeyRepeats(ValidatedRecs(ReadCsv(f)))
    /\ Len(f.rows) = Len(d.rows)
    /\ {ValidatedRecs(ReadCsv(f))[j] : j \in 1 .. Len(f.rows)}
         = {d.rows[j].rec : j \in 1 .. Len(d.rows)}

=============================================================================
